---------------------------- MODULE Spec2Model ----------------------------
(***************************************************************************)
(* The chunked upload pipeline of the wedding website: the client-side     *)
(* ChunkedUploadManager (lib/chunked-upload-service) together with the     *)
(* chunked-upload endpoints (init, chunk, complete, cleanup) and the       *)
(* chunk store they share.                                                 *)
(*                                                                         *)
(* The manager runs on one JavaScript event loop.  One step of the model   *)
(* is one task of that loop: a call of a public method, a timer, or the    *)
(* arrival of a network response, together with every promise reaction     *)
(* (microtask) that the task makes runnable.  The synchronous pieces of    *)
(* the code are operators from a state record to a state record; an        *)
(* action applies a composition of them to the current state.              *)
(***************************************************************************)
EXTENDS Integers, Sequences, FiniteSets, TLC

(***************************************************************************)
(* Bounds of the model and options of the manager.                         *)
(***************************************************************************)
\* files ever handed to addFiles
MaxFiles == 2
\* the largest file has MaxChunks chunks
MaxChunks == 2
\* calls of pauseAll, resumeAll, cancelAll, removeFile, ... in one run
MaxOps == 2
\* failures injected by the network and the external services in one run
MaxFaults == 2
\* options.maxRetries (the default is 3)
MaxRetries == 2
\* options.maxConcurrentChunks (the default is 3)
MaxConcurrentChunks == 2
\* the largest file of the reassembly runs has MaxLongChunks chunks
MaxLongChunks == 11
\* options.chunkSize, in bytes (the default is 2 MB)
ChunkSize == 2
\* the latest hour the server clock reaches
MaxNow == 26
\* the largest file size and the largest options.chunkSize of the splitting runs, in bytes
MaxFileSize == 24
MaxChunkSize == 5
\* ORPHAN_THRESHOLD of the orphan sweep, in hours (24 * 60 * 60 * 1000 ms)
ORPHAN_THRESHOLD == 24

None == 0
NoPos == -1
\* updateFileStatus(fileId, "error", error.message): the message lands in queuePosition
MsgPos == -2

FileIds == 1..MaxFiles
\* the empty file, and one size for every chunk count up to MaxChunks
FileSizes == {0} \cup {k * ChunkSize - 1 : k \in 1..MaxChunks}
\* sizes for every chunk count up to MaxLongChunks, with a short and a full last chunk
LongSizes == {k * ChunkSize - 1 : k \in 1..MaxLongChunks} \cup {MaxLongChunks * ChunkSize}

VARIABLES
  files,            \* this.files: the ChunkedFile records, in insertion order
  uploadQueue,      \* this.uploadQueue
  activeFileId,     \* this.activeFileId (None for null)
  paused,           \* this.paused
  processingQueue,  \* this.processingQueue
  abortControllers, \* keys of this.abortControllers
  pqTimer,          \* a setTimeout(() => this.processQueue()) is pending
  uf,               \* the running uploadFile call and its uploadChunks locals
  retryTimers,      \* chunk indices with a pending retry timer of the running uploadChunks
  net,              \* requests in flight
  blobs,            \* the chunk store: the stored chunk objects (upload id, name, bytes)
  media,            \* what the storage backend was handed (upload id, bytes)
  waiters,          \* cancelAllWithCleanup / removeFileWithCleanup calls awaiting cleanup
  events,           \* callbacks raised by the last step, in the order raised
  created,          \* number of files created so far
  ops,              \* disturbing calls (pause, cancel, remove, ...) still allowed
  faults,           \* injected failures still allowed
  now,              \* Date.now() at the server, in hours
  uploadedAt,       \* blob.uploadedAt of the objects stored by the chunk store's own clock
  response,         \* the last response of a cleanup endpoint called on its own
  split             \* the chunks the manager derives for one file size and chunk size

vars == <<files, uploadQueue, activeFileId, paused, processingQueue, abortControllers,
          pqTimer, uf, retryTimers, net, blobs, media, waiters, events, created, ops, faults,
          now, uploadedAt, response, split>>

(***************************************************************************)
(* Helpers.                                                                *)
(***************************************************************************)
Range(q) == {q[i] : i \in DOMAIN q}

\* a division that rounds down
CeilDown(a, b) == a \div b

\* Math.ceil(a / b) for a >= 0, b > 0
Ceil(a, b) == (a + b - 1) \div b

\* Math.round((c / t) * 100) for 0 <= c <= t, t > 0 (round half up)
RoundPct(c, t) == (200 * c + t) \div (2 * t)

NoUF == [pc |-> "none", file |-> None, tc |-> 0, size |-> 0, aborted |-> FALSE,
         chunkQueue |-> <<>>, activeChunks |-> {}, results |-> <<>>, sent |-> <<>>]

\* the state as one record, so that the synchronous code composes
Cur == [files |-> files, uploadQueue |-> uploadQueue, activeFileId |-> activeFileId,
        paused |-> paused, processingQueue |-> processingQueue,
        abortControllers |-> abortControllers, pqTimer |-> pqTimer, uf |-> uf,
        retryTimers |-> retryTimers, net |-> net, blobs |-> blobs, media |-> media,
        waiters |-> waiters, events |-> <<>>, created |-> created, ops |-> ops,
        faults |-> faults]

Commit(s) ==
  \E t \in {s} :
    /\ files' = t.files
    /\ uploadQueue' = t.uploadQueue
    /\ activeFileId' = t.activeFileId
    /\ paused' = t.paused
    /\ processingQueue' = t.processingQueue
    /\ abortControllers' = t.abortControllers
    /\ pqTimer' = t.pqTimer
    /\ uf' = t.uf
    /\ retryTimers' = t.retryTimers
    /\ net' = t.net
    /\ blobs' = t.blobs
    /\ media' = t.media
    /\ waiters' = t.waiters
    /\ events' = t.events
    /\ created' = t.created
    /\ ops' = t.ops
    /\ faults' = t.faults
    /\ UNCHANGED <<now, uploadedAt, response, split>>

Emit(s, type, id) == [s EXCEPT !.events = Append(@, [type |-> type, id |-> id])]

HasFile(s, fileId) == \E i \in DOMAIN s.files : s.files[i].id = fileId

\* this.files.find((f) => f.id === fileId), for a file that is there
FindFile(s, fileId) == s.files[CHOOSE i \in DOMAIN s.files : s.files[i].id = fileId]

CompletedCount(chunks) == Cardinality({c \in DOMAIN chunks : chunks[c].status = "completed"})

(***************************************************************************)
(* The manager's private updaters.                                         *)
(***************************************************************************)
updateFileStatus(s, fileId, status, queuePosition) ==
  [s EXCEPT !.files = [i \in DOMAIN s.files |->
     IF s.files[i].id = fileId
       THEN [s.files[i] EXCEPT !.status = status,
                               !.queuePosition = IF queuePosition # NoPos THEN queuePosition ELSE @]
       ELSE s.files[i]]]

updateChunkStatus(s, fileId, chunkIndex, status) ==
  [s EXCEPT !.files = [i \in DOMAIN s.files |->
     IF s.files[i].id = fileId /\ chunkIndex \in DOMAIN s.files[i].chunks
       THEN LET chunks == [s.files[i].chunks EXCEPT ![chunkIndex].status = status]
            IN  [s.files[i] EXCEPT !.chunks = chunks, !.uploadedChunks = CompletedCount(chunks)]
       ELSE s.files[i]]]

updateChunkRetries(s, fileId, chunkIndex, retries) ==
  [s EXCEPT !.files = [i \in DOMAIN s.files |->
     IF s.files[i].id = fileId
       THEN [s.files[i] EXCEPT !.chunks[chunkIndex].retries = retries]
       ELSE s.files[i]]]

updateFileProgress(s, fileId) ==
  IF ~HasFile(s, fileId) THEN s
  ELSE [s EXCEPT !.files = [i \in DOMAIN s.files |->
     IF s.files[i].id = fileId
       THEN LET completedChunks == CompletedCount(s.files[i].chunks)
            IN  [s.files[i] EXCEPT !.progress = RoundPct(completedChunks, s.files[i].totalChunks),
                                   !.uploadedChunks = completedChunks]
       ELSE s.files[i]]]

\* checkAllComplete without the comparison of the two counts with the number of files
checkAllCompleteUncounted(s) == Emit(s, "allComplete", None)

checkAllComplete(s) ==
  IF \A i \in DOMAIN s.files : s.files[i].status \in {"completed", "error"}
    THEN Emit(s, "allComplete", None)
    ELSE s

\* the ids of the files updateQueuePositions puts in the queue, in insertion order
QueuedIds(s) ==
  LET queuedFiles == SelectSeq(s.files, LAMBDA f :
                        /\ f.status \notin {"completed", "error", "uploading"}
                        /\ f.id # s.activeFileId)
  IN  [i \in DOMAIN queuedFiles |-> queuedFiles[i].id]

\* 0-based position of id in the sequence q
PositionIn(q, id) == (CHOOSE i \in DOMAIN q : q[i] = id) - 1

updateQueuePositions(s) ==
  LET q == QueuedIds(s)
      fs == [i \in DOMAIN s.files |->
               IF s.files[i].id \in Range(q)
                 THEN [s.files[i] EXCEPT !.status = "queued",
                                         !.queuePosition = PositionIn(q, s.files[i].id)]
                 ELSE s.files[i]]
  IN  [s EXCEPT !.files = fs,
                !.uploadQueue = q,
                !.pqTimer = @ \/ (s.activeFileId = None /\ ~s.paused /\ q # <<>>)]


(***************************************************************************)
(* File contents, chunk slices and chunk object names.                     *)
(***************************************************************************)
\* the bytes of a file: all different, so that any reordering shows
FileBytes(id, size) == [j \in 1..size |-> 100 * id + j]

Min(a, b) == IF a < b THEN a ELSE b

\* const start = chunkIndex * file.chunkSize
chunkStart(chunkIndex, chunkSize) == chunkIndex * chunkSize

\* const end = Math.min(start + file.chunkSize, file.size)
chunkEnd(chunkIndex, chunkSize, size) == Min(chunkStart(chunkIndex, chunkSize) + chunkSize, size)

\* file.file.slice(start, end) in uploadChunk
chunkBlob(id, size, chunkIndex) ==
  LET start == chunkStart(chunkIndex, ChunkSize)
      end == chunkEnd(chunkIndex, ChunkSize, size)
  IN  SubSeq(FileBytes(id, size), start + 1, end)

\* the chunks of a file of fileSize bytes under options.chunkSize = chunkSize: the chunks
\* array of addFiles, each chunk with the slice uploadChunk takes for it
splitFile(fileSize, chunkSize) ==
  LET totalChunks == Ceil(fileSize, chunkSize) IN
  [fileSize |-> fileSize, chunkSize |-> chunkSize, totalChunks |-> totalChunks,
   chunks |-> [index \in 0..(totalChunks - 1) |->
                 [index |-> index, start |-> chunkStart(index, chunkSize),
                  end |-> chunkEnd(index, chunkSize, fileSize)]]]

\* chunkIndex.toString(), `chunk-${chunkIndex}`: the decimal digits of n >= 0
RECURSIVE ToDigits(_)
ToDigits(n) == IF n < 10 THEN <<n>> ELSE Append(ToDigits(n \div 10), n % 10)

\* Number.parseInt(digits, 10)
RECURSIVE ParseInt(_)
ParseInt(digits) ==
  IF Len(digits) = 1 THEN digits[1]
  ELSE 10 * ParseInt(SubSeq(digits, 1, Len(digits) - 1)) + digits[Len(digits)]

(***************************************************************************)
(* Requests in flight.  A request is answered in one step: the endpoint's  *)
(* work and the reaction of the client code awaiting it.  (The endpoint    *)
(* touches only the chunk store and the storage backend, the client only   *)
(* the manager, so the two halves commute with every other step.)          *)
(*   live: for init and complete, the uploadFile call still awaits the     *)
(*   response; for a chunk, the uploadChunks call that sent it still runs. *)
(***************************************************************************)
Req(kind, id, idx, tc, size, bytes) ==
  [kind |-> kind, id |-> id, idx |-> idx, live |-> TRUE, tc |-> tc, size |-> size,
   bytes |-> bytes]

(***************************************************************************)
(* processQueue, after `await this.uploadFile(nextFileId)` has returned.   *)
(***************************************************************************)
\* a processQueue without its finally block: the processing flag is never cleared
processQueueResumeNoFinally(s) ==
  LET s1 == [s EXCEPT !.uploadQueue = IF @ = <<>> THEN @ ELSE Tail(@),
                      !.activeFileId = None]
      s2 == updateQueuePositions(s1)
  IN  [s2 EXCEPT !.pqTimer = TRUE]

processQueueResume(s) ==
  LET s1 == [s EXCEPT !.uploadQueue = IF @ = <<>> THEN @ ELSE Tail(@),
                      !.activeFileId = None]
      s2 == updateQueuePositions(s1)
  IN  [s2 EXCEPT !.pqTimer = TRUE, !.processingQueue = FALSE]

\* uploadChunks returns or throws: its locals die; the chunk requests it sent stay in flight
uploadChunksEnd(s) ==
  [s EXCEPT !.net = {IF r.kind = "chunk" /\ r.live THEN [r EXCEPT !.live = FALSE] ELSE r : r \in s.net},
            !.retryTimers = {}]

\* uploadFile's catch block for an error that is not an AbortError
uploadFileCatch(s) ==
  LET fileId == s.uf.file
      s1 == updateFileStatus(s, fileId, "error", MsgPos)
      s2 == [s1 EXCEPT !.abortControllers = @ \ {fileId}, !.uf = NoUF]
      s3 == checkAllComplete(Emit(s2, "error", fileId))
  IN  processQueueResume(s3)

\* uploadFile after a successful completion response
uploadFileCompleted(s) ==
  LET fileId == s.uf.file
      s1 == updateFileStatus(s, fileId, "completed", NoPos)
      s2 == [s1 EXCEPT !.abortControllers = @ \ {fileId}, !.uf = NoUF]
      s3 == checkAllComplete(Emit(s2, "fileComplete", fileId))
  IN  processQueueResume(s3)

\* uploadFile's catch block for an AbortError: it only returns
uploadFileAborted(s) == processQueueResume([s EXCEPT !.uf = NoUF])

\* uploadFile after uploadChunks has returned: the completion request
completeUpload(s) ==
  IF s.uf.aborted
    THEN uploadFileAborted(s)
    ELSE [s EXCEPT !.uf.pc = "complete",
                   !.net = @ \cup {Req("complete", s.uf.file, NoPos, s.uf.tc, s.uf.size, <<>>)}]

\* the start of uploadChunk(fileId, chunkIndex), from uploadChunks' fill loop
startChunk(s, chunkIndex) ==
  LET fileId == s.uf.file
      s1 == [s EXCEPT !.uf.chunkQueue = Tail(@)]
  IN  IF ~HasFile(s, fileId)
        \* "File not found": the rejection handler records the error, no retry
        THEN [s1 EXCEPT !.uf.results[chunkIndex] = "err"]
        ELSE LET s2 == updateChunkStatus(s1, fileId, chunkIndex, "uploading")
             IN  [s2 EXCEPT !.uf.activeChunks = @ \cup {chunkIndex},
                            !.uf.sent[chunkIndex] = @ + 1,
                            !.net = @ \cup {Req("chunk", fileId, chunkIndex, s.uf.tc, s.uf.size,
                                                     chunkBlob(fileId, s.uf.size, chunkIndex))}]

RECURSIVE fillActiveChunks(_)
fillActiveChunks(s) ==
  IF s.uf.chunkQueue # <<>> /\ Cardinality(s.uf.activeChunks) < MaxConcurrentChunks
    \* (the state after startChunk is evaluated once, then the loop goes on from it)
    THEN CHOOSE y \in {fillActiveChunks(t) : t \in {startChunk(s, Head(s.uf.chunkQueue))}} : TRUE
    ELSE s

\* one evaluation of uploadChunks' while loop, up to its 100 ms wait
uploadChunksLoop(s) ==
  IF s.uf.chunkQueue = <<>> /\ s.uf.activeChunks = {}
    THEN IF \E c \in DOMAIN s.uf.results : s.uf.results[c] = "err"
           THEN uploadFileCatch(uploadChunksEnd(s))
           ELSE completeUpload(uploadChunksEnd(s))
    ELSE IF s.paused \/ s.uf.aborted
           THEN completeUpload(uploadChunksEnd(s))
           ELSE fillActiveChunks(s)

\* uploadFile after a successful init response: uploadChunks up to its first wait
uploadChunks(s) ==
  LET fileId == s.uf.file IN
  IF ~HasFile(s, fileId)
    THEN completeUpload(s)
    ELSE LET file == FindFile(s, fileId)
             idxs == DOMAIN file.chunks
             pendingChunks == {c \in idxs : file.chunks[c].status # "completed"}
             \* the pending chunks in index order
             chunkQueue == [k \in 1..Cardinality(pendingChunks) |->
                              CHOOSE c \in pendingChunks :
                                Cardinality({d \in pendingChunks : d < c}) = k - 1]
         IN  CHOOSE y \in {uploadChunksLoop(t) : t \in
                  {[s EXCEPT !.uf.pc = "chunks",
                             !.uf.chunkQueue = chunkQueue,
                             !.uf.activeChunks = {},
                             !.uf.results = [c \in idxs |-> "null"],
                             !.uf.sent = [c \in idxs |-> 0]]}} : TRUE

\* uploadFile(fileId) up to its first await
uploadFile(s, fileId) ==
  IF ~HasFile(s, fileId) \/ FindFile(s, fileId).status \in {"completed", "uploading"}
    THEN processQueueResume(s)
    ELSE LET file == FindFile(s, fileId)
             s1 == updateFileStatus(s, fileId, "uploading", NoPos)
         IN  [s1 EXCEPT !.abortControllers = @ \cup {fileId},
                        !.uf = [NoUF EXCEPT !.pc = "init", !.file = fileId, !.tc = file.totalChunks,
                                         !.size = file.size],
                        !.net = @ \cup {Req("init", fileId, NoPos, file.totalChunks, file.size, <<>>)}]

\* a processQueue that takes the newest queued file
nextFileIdNewest(queue) == queue[Len(queue)]

\* const nextFileId = this.uploadQueue[0]
nextFileIdOf(queue) == Head(queue)

\* processQueue() up to its first await
processQueue(s) ==
  IF s.processingQueue \/ s.paused THEN s
  ELSE IF s.uploadQueue = <<>> THEN s
  ELSE IF s.activeFileId # None THEN [s EXCEPT !.processingQueue = FALSE]
  ELSE LET nextFileId == nextFileIdOf(s.uploadQueue)
       IN  uploadFile([s EXCEPT !.processingQueue = TRUE, !.activeFileId = nextFileId], nextFileId)

\* controller.abort() and abortControllers.delete for one file
abortController(s, fileId) ==
  IF fileId \in s.abortControllers
    THEN [s EXCEPT !.abortControllers = @ \ {fileId},
                   !.uf.aborted = @ \/ (s.uf.pc # "none" /\ s.uf.file = fileId)]
    ELSE s

\* the promise reactions run after a task: an aborted fetch (init or complete)
\* rejects with an AbortError; the completion request may still reach the server
runMicrotasks(s) ==
  IF s.uf.pc \in {"init", "complete"} /\ s.uf.aborted
    THEN uploadFileAborted(
           [s EXCEPT !.net = {IF r.kind = "complete" /\ r.live THEN [r EXCEPT !.live = FALSE] ELSE r :
                                r \in {q \in s.net : q.kind # "init"}}])
    ELSE s

(***************************************************************************)
(* The public methods of the manager, each up to its first await.          *)
(***************************************************************************)
newChunkedFile(s, id, size) ==
  LET totalChunks == Ceil(size, ChunkSize) IN
  [id |-> id, size |-> size, totalChunks |-> totalChunks, uploadedChunks |-> 0,
   status |-> IF s.activeFileId # None THEN "queued" ELSE "pending",
   progress |-> 0, error |-> FALSE, queuePosition |-> NoPos,
   chunks |-> [index \in 0..(totalChunks - 1) |-> [status |-> "pending", retries |-> 0]]]

\* addFiles(files): sizes are the sizes of the files handed in
addFiles(s, sizes) ==
  LET chunkedFiles == [k \in DOMAIN sizes |-> newChunkedFile(s, s.created + k, sizes[k])]
  IN  updateQueuePositions([s EXCEPT !.files = @ \o chunkedFiles,
                                     !.created = @ + Len(sizes)])

abortUpload(s, fileId) ==
  LET s1 == updateFileStatus(abortController(s, fileId), fileId, "pending", NoPos)
  IN  IF fileId = s1.activeFileId THEN [s1 EXCEPT !.activeFileId = None] ELSE s1

withoutFile(s, fileId) ==
  [s EXCEPT !.files = SelectSeq(@, LAMBDA f : f.id # fileId)]

\* the tail shared by removeFile and removeFileWithCleanup
removeFileTail(s, fileId) ==
  LET s1 == updateQueuePositions(withoutFile(s, fileId))
  IN  IF s1.activeFileId = None /\ ~s1.paused THEN processQueue(s1) ELSE s1

removeFile(s, fileId) ==
  LET s1 == IF HasFile(s, fileId) /\ fileId = s.activeFileId
              THEN [abortUpload(s, fileId) EXCEPT !.activeFileId = None]
              ELSE s
  IN  removeFileTail(s1, fileId)

pauseAll(s) ==
  LET s1 == [s EXCEPT !.paused = TRUE]
  IN  IF s1.activeFileId # None THEN updateFileStatus(s1, s1.activeFileId, "paused", NoPos) ELSE s1

resumeAll(s) ==
  LET s1 == [s EXCEPT !.paused = FALSE]
      s2 == IF /\ s1.activeFileId # None
               /\ HasFile(s1, s1.activeFileId)
               /\ FindFile(s1, s1.activeFileId).status = "paused"
              THEN updateFileStatus(s1, s1.activeFileId, "pending", NoPos)
              ELSE s1
  IN  processQueue(s2)

startUpload(s) == processQueue(updateQueuePositions([s EXCEPT !.paused = FALSE]))

\* the reset without its "Reset failed chunks" part
retryFailedResetFilesOnly(s) ==
  [s EXCEPT !.files = [i \in DOMAIN s.files |->
     IF s.files[i].status = "error" THEN [s.files[i] EXCEPT !.status = "pending"]
                                    ELSE s.files[i]]]

\* "Reset file status", "Reset failed chunks": the forEach over the failed files
retryFailedReset(s) ==
  [s EXCEPT !.files = [i \in DOMAIN s.files |->
     IF s.files[i].status = "error"
       THEN LET chunks == [c \in DOMAIN s.files[i].chunks |->
                             IF s.files[i].chunks[c].status = "error"
                               THEN [s.files[i].chunks[c] EXCEPT !.status = "pending"]
                               ELSE s.files[i].chunks[c]]
            IN  [s.files[i] EXCEPT !.status = "pending", !.chunks = chunks,
                                   !.uploadedChunks = CompletedCount(chunks)]
       ELSE s.files[i]]]

retryFailed(s) == processQueue(updateQueuePositions(retryFailedReset(s)))

clearCompleted(s) ==
  updateQueuePositions([s EXCEPT !.files = SelectSeq(@, LAMBDA f : f.status # "completed")])

abortAllControllers(s) ==
  [s EXCEPT !.abortControllers = {},
            !.uf.aborted = @ \/ (s.uf.pc # "none" /\ s.uf.file \in s.abortControllers)]

\* "Reset file statuses", "Clear active file", "Update queue positions"
cancelTail(s) ==
  LET fs == [i \in DOMAIN s.files |->
               IF s.files[i].status \in {"uploading", "paused", "queued"}
                 THEN [s.files[i] EXCEPT !.status = "pending"]
                 ELSE s.files[i]]
  IN  updateQueuePositions([s EXCEPT !.files = fs, !.activeFileId = None])

cancelAll(s) == cancelTail(abortAllControllers(s))

\* the ids cancelAllWithCleanup cleans up
uploadsToCleanup(s) ==
  {s.files[i].id : i \in {j \in DOMAIN s.files :
     s.files[j].status \in {"uploading", "paused"} \/ s.files[j].uploadedChunks > 0}}

cancelAllWithCleanup(s) ==
  LET s1 == abortAllControllers(s)
      ids == uploadsToCleanup(s1)
  IN  IF ids = {}
        THEN cancelTail(s1)
        ELSE [s1 EXCEPT !.net = @ \cup {Req("cleanupCancel", id, NoPos, 0, 0, <<>>) : id \in ids},
                        !.waiters = @ \cup {[kind |-> "cancel", id |-> None, pending |-> ids]}]

removeFileWithCleanup(s, fileId) ==
  IF ~HasFile(s, fileId) THEN removeFileTail(s, fileId)
  ELSE LET file == FindFile(s, fileId)
           s1 == abortUpload(s, fileId)
       IN  IF file.status \in {"uploading", "paused"} \/ file.uploadedChunks > 0
             THEN [s1 EXCEPT !.net = @ \cup {Req("cleanupRemove", fileId, NoPos, 0, 0, <<>>)},
                             !.waiters = @ \cup {[kind |-> "remove", id |-> fileId, pending |-> {fileId}]}]
             ELSE removeFileTail(s1, fileId)

(***************************************************************************)
(* The endpoints and the chunk store.  A chunk object is                   *)
(*   uploads/<uploadId>/chunk-<name>.bin, with name the index in decimal.  *)
(***************************************************************************)
BlobsOf(bs, uploadId) == {b \in bs : b.uploadId = uploadId}

\* put(pathname, chunk): stores the object under its pathname, replacing an older one
putBlob(bs, uploadId, name, bytes) ==
  {b \in bs : ~(b.uploadId = uploadId /\ b.name = name)}
    \cup {[uploadId |-> uploadId, name |-> name, bytes |-> bytes]}

\* the chunk endpoint: parses chunkIndex and stores the chunk
chunkEndpoint(bs, r) ==
  LET chunkIndex == ParseInt(ToDigits(r.idx))
  IN  putBlob(bs, r.id, ToDigits(chunkIndex), r.bytes)

\* pathname order of two chunk names ("chunk-1.bin" < "chunk-10.bin" < "chunk-2.bin")
RECURSIVE NameLess(_, _)
NameLess(a, b) ==
  IF a = <<>> THEN b # <<>>
  ELSE IF b = <<>> THEN FALSE
  ELSE IF Head(a) # Head(b) THEN Head(a) < Head(b)
  ELSE NameLess(Tail(a), Tail(b))

\* list({ prefix }): the objects of one upload, in pathname order or (rev) its reverse
listBlobs(bs, uploadId, rev) ==
  LET mine == BlobsOf(bs, uploadId)
      n == Cardinality(mine)
      asc == [k \in 1..n |-> CHOOSE b \in mine :
                Cardinality({c \in mine : NameLess(c.name, b.name)}) = k - 1]
  IN  IF rev THEN [k \in 1..n |-> asc[n + 1 - k]] ELSE asc

\* a comparator that orders the chunks by pathname
chunkBeforeByName(a, b) == NameLess(a.name, b.name)

\* the comparator of the completion endpoint: indexA - indexB < 0
chunkBefore(a, b) == ParseInt(a.name) < ParseInt(b.name)

\* insert blob b into the sorted sequence q (Array.prototype.sort is stable)
RECURSIVE insertSorted(_, _)
insertSorted(q, b) ==
  IF q = <<>> THEN <<b>>
  ELSE IF chunkBefore(b, Head(q)) THEN <<b>> \o q
  ELSE <<Head(q)>> \o insertSorted(Tail(q), b)

RECURSIVE sortBlobs(_)
sortBlobs(q) == IF q = <<>> THEN <<>> ELSE insertSorted(sortBlobs(SubSeq(q, 1, Len(q) - 1)), q[Len(q)])

\* combinedBuffer: the chunks' bytes one after the other
RECURSIVE combineBuffers(_)
combineBuffers(q) == IF q = <<>> THEN <<>> ELSE Head(q).bytes \o combineBuffers(Tail(q))

\* a completion endpoint that does not verify the number of chunks
completeEndpointUnverified(bs, md, r, rev, backendOk, kept) ==
  LET listed == listBlobs(bs, r.id, rev) IN
  IF r.tc = 0 THEN [status |-> "missingFields", blobs |-> bs, media |-> md]
  ELSE IF ~backendOk THEN [status |-> "backendError", blobs |-> bs, media |-> md]
  ELSE [status |-> "ok",
        blobs |-> (bs \ BlobsOf(bs, r.id)) \cup kept,
        media |-> md \cup {[id |-> r.id, bytes |-> combineBuffers(sortBlobs(listed))]}]

\* a completion endpoint that deletes the chunks before it hands the file to the backend
completeEndpointDeletesFirst(bs, md, r, rev, backendOk, kept) ==
  LET listed == listBlobs(bs, r.id, rev) IN
  IF r.tc = 0 THEN [status |-> "missingFields", blobs |-> bs, media |-> md]
  ELSE IF Len(listed) # r.tc THEN [status |-> "countMismatch", blobs |-> bs, media |-> md]
  ELSE IF ~backendOk
    THEN [status |-> "backendError", blobs |-> bs \ BlobsOf(bs, r.id), media |-> md]
  ELSE [status |-> "ok",
        blobs |-> (bs \ BlobsOf(bs, r.id)) \cup kept,
        media |-> md \cup {[id |-> r.id, bytes |-> combineBuffers(sortBlobs(listed))]}]

\* the completion endpoint.  backendOk: uploadToGooglePhotos succeeds; kept: the
\* chunk objects whose deletion fails.  Result: status, chunk store, media items.
completeEndpoint(bs, md, r, rev, backendOk, kept) ==
  LET listed == listBlobs(bs, r.id, rev) IN
  IF r.tc = 0 THEN [status |-> "missingFields", blobs |-> bs, media |-> md]
  ELSE IF Len(listed) # r.tc THEN [status |-> "countMismatch", blobs |-> bs, media |-> md]
  ELSE IF ~backendOk THEN [status |-> "backendError", blobs |-> bs, media |-> md]
  ELSE [status |-> "ok",
        blobs |-> (bs \ BlobsOf(bs, r.id)) \cup kept,
        media |-> md \cup {[id |-> r.id, bytes |-> combineBuffers(sortBlobs(listed))]}]

\* a cleanup that deletes whatever the store holds
cleanupEndpointUnscoped(bs, uploadId, kept) == kept

\* the targeted cleanup endpoint; kept: the chunk objects whose deletion fails
cleanupEndpoint(bs, uploadId, kept) == (bs \ BlobsOf(bs, uploadId)) \cup kept

\* the init endpoint validates its fields and stores nothing
initEndpoint(r) == r.size # 0 /\ r.tc # 0

(***************************************************************************)
(* The reactions of the client to a settled request.                       *)
(***************************************************************************)
\* a failure handler that re-enqueues the chunk whatever its retry count is
chunkSettledAlwaysRetry(s, r, ok) ==
  LET s1 == IF ok
              THEN updateFileProgress(updateChunkStatus(s, r.id, r.idx, "completed"), r.id)
              ELSE updateChunkStatus(s, r.id, r.idx, "error")
      s2 == IF r.live
              THEN [s1 EXCEPT !.uf.activeChunks = @ \ {r.idx},
                              !.uf.results[r.idx] = IF ok THEN "ok" ELSE "err"]
              ELSE s1
      retry == /\ ~ok
               /\ HasFile(s2, r.id)
               /\ r.idx \in DOMAIN FindFile(s2, r.id).chunks
  IN  IF retry
        THEN [updateChunkRetries(s2, r.id, r.idx, FindFile(s2, r.id).chunks[r.idx].retries + 1)
                EXCEPT !.retryTimers = IF r.live THEN @ \cup {r.idx} ELSE @]
        ELSE s2

\* uploadChunk after its fetch, and the handlers uploadChunks attached to it
chunkSettled(s, r, ok) ==
  LET s1 == IF ok
              THEN updateFileProgress(updateChunkStatus(s, r.id, r.idx, "completed"), r.id)
              ELSE updateChunkStatus(s, r.id, r.idx, "error")
      s2 == IF r.live
              THEN [s1 EXCEPT !.uf.activeChunks = @ \ {r.idx},
                              !.uf.results[r.idx] = IF ok THEN "ok" ELSE "err"]
              ELSE s1
      retry == /\ ~ok
               /\ HasFile(s2, r.id)
               /\ r.idx \in DOMAIN FindFile(s2, r.id).chunks
               /\ FindFile(s2, r.id).chunks[r.idx].retries < MaxRetries
  IN  IF retry
        THEN [updateChunkRetries(s2, r.id, r.idx, FindFile(s2, r.id).chunks[r.idx].retries + 1)
                EXCEPT !.retryTimers = IF r.live THEN @ \cup {r.idx} ELSE @]
        ELSE s2

\* the retry timer of uploadChunks' failure handler
retryTimerFired(s, chunkIndex) ==
  [s EXCEPT !.retryTimers = @ \ {chunkIndex},
            !.uf.chunkQueue = IF ~s.paused /\ ~s.uf.aborted THEN Append(@, chunkIndex) ELSE @]

\* a cleanup request of removeFileWithCleanup or cancelAllWithCleanup has settled
cleanupSettled(s, r) ==
  IF r.kind = "cleanupRemove"
    THEN removeFileTail([s EXCEPT !.waiters = {w \in @ : ~(w.kind = "remove" /\ w.id = r.id)}], r.id)
    ELSE LET w == CHOOSE w \in s.waiters : w.kind = "cancel"
             rest == w.pending \ {r.id}
         IN  IF rest = {}
               THEN cancelTail([s EXCEPT !.waiters = @ \ {w}])
               ELSE [s EXCEPT !.waiters = (@ \ {w}) \cup {[w EXCEPT !.pending = rest]}]

Fault(s, failed) == IF failed THEN [s EXCEPT !.faults = @ - 1] ELSE s

Disturb(s) == [s EXCEPT !.ops = @ - 1]

FileIdsOf(fs) == {fs[i].id : i \in DOMAIN fs}

(***************************************************************************)
(* The actions: one task of the event loop each.                           *)
(***************************************************************************)
\* the manager after construction, an empty chunk store, and the budgets of the run
InitWith(opsAllowed, faultsAllowed) ==
  /\ files = <<>>
  /\ uploadQueue = <<>>
  /\ activeFileId = None
  /\ paused = FALSE
  /\ processingQueue = FALSE
  /\ abortControllers = {}
  /\ pqTimer = FALSE
  /\ uf = NoUF
  /\ retryTimers = {}
  /\ net = {}
  /\ blobs = {}
  /\ media = {}
  /\ waiters = {}
  /\ events = <<>>
  /\ created = 0
  /\ ops = opsAllowed
  /\ faults = faultsAllowed
  /\ now = 0
  /\ uploadedAt = <<>>
  /\ response = [status |-> None]
  /\ split = splitFile(0, ChunkSize)

\* every method of the manager, one disturbing call and one failure at most
Init == InitWith(MaxOps - 1, MaxFaults - 1)

AddFiles ==
  \E n \in 1..(MaxFiles - created) : \E sizes \in [1..n -> FileSizes] :
    Commit(runMicrotasks(addFiles(Cur, sizes)))

StartUpload == Commit(runMicrotasks(startUpload(Cur)))

PauseAll == ops > 0 /\ Commit(runMicrotasks(pauseAll(Disturb(Cur))))

ResumeAll == ops > 0 /\ Commit(runMicrotasks(resumeAll(Disturb(Cur))))

RetryFailed == ops > 0 /\ Commit(runMicrotasks(retryFailed(Disturb(Cur))))

ClearCompleted == ops > 0 /\ Commit(runMicrotasks(clearCompleted(Disturb(Cur))))

CancelAll == ops > 0 /\ Commit(runMicrotasks(cancelAll(Disturb(Cur))))

CancelAllWithCleanup ==
  /\ ops > 0
  /\ \A w \in waiters : w.kind # "cancel"
  /\ Commit(runMicrotasks(cancelAllWithCleanup(Disturb(Cur))))

AbortUpload ==
  /\ ops > 0
  /\ \E fileId \in FileIdsOf(files) : Commit(runMicrotasks(abortUpload(Disturb(Cur), fileId)))

RemoveFile ==
  /\ ops > 0
  /\ \E fileId \in FileIdsOf(files) : Commit(runMicrotasks(removeFile(Disturb(Cur), fileId)))

RemoveFileWithCleanup ==
  /\ ops > 0
  /\ \E fileId \in FileIdsOf(files) :
       /\ \A w \in waiters : ~(w.kind = "remove" /\ w.id = fileId)
       /\ Commit(runMicrotasks(removeFileWithCleanup(Disturb(Cur), fileId)))

\* setTimeout(() => this.processQueue(), 0)
ProcessQueueTimer ==
  /\ pqTimer
  /\ Commit(runMicrotasks(processQueue([Cur EXCEPT !.pqTimer = FALSE])))

\* the 100 ms wait of uploadChunks' loop is over
ChunkLoopTimer ==
  /\ uf.pc = "chunks"
  /\ Commit(uploadChunksLoop(Cur))

RetryTimer == \E c \in retryTimers : Commit(retryTimerFired(Cur, c))

InitResponds ==
  \E r \in {q \in net : q.kind = "init"} : \E failed \in BOOLEAN :
    /\ failed => (faults > 0 /\ initEndpoint(r))
    /\ LET s == Fault([Cur EXCEPT !.net = @ \ {r}], failed)
       IN  Commit(IF initEndpoint(r) /\ ~failed THEN uploadChunks(s) ELSE uploadFileCatch(s))

ChunkResponds ==
  \E r \in {q \in net : q.kind = "chunk"} : \E failed \in BOOLEAN :
    /\ failed => faults > 0
    /\ LET s == Fault([Cur EXCEPT !.net = @ \ {r},
                                  !.blobs = IF failed THEN @ ELSE chunkEndpoint(@, r)], failed)
       IN  Commit(chunkSettled(s, r, ~failed))

CompleteResponds ==
  \E r \in {q \in net : q.kind = "complete"} :
    \E rev \in BOOLEAN, backendOk \in BOOLEAN, kept \in SUBSET BlobsOf(blobs, r.id) :
      \E res \in {completeEndpoint(blobs, media, r, rev, backendOk, kept)} :
        LET failed == ~backendOk \/ kept # {} IN
        /\ failed => /\ faults > 0
                     /\ res.status \in {"ok", "backendError"}
                     /\ backendOk \/ kept = {}
        /\ \E s \in {Fault([Cur EXCEPT !.net = @ \ {r}, !.blobs = res.blobs,
                                       !.media = res.media], failed)} :
             Commit(IF ~r.live THEN s
                    ELSE IF res.status = "ok" THEN uploadFileCompleted(s)
                    ELSE uploadFileCatch(s))

CleanupResponds ==
  \E r \in {q \in net : q.kind \in {"cleanupRemove", "cleanupCancel"}} :
    \E kept \in SUBSET BlobsOf(blobs, r.id) :
      /\ kept # {} => faults > 0
      /\ LET s == Fault([Cur EXCEPT !.net = @ \ {r},
                                    !.blobs = cleanupEndpoint(@, r.id, kept)], kept # {})
         IN  Commit(runMicrotasks(cleanupSettled(s, r)))

\* timers and responses when no request fails
Reliable ==
  \/ ProcessQueueTimer
  \/ ChunkLoopTimer
  \/ InitResponds
  \/ ChunkResponds
  \/ CompleteResponds

\* timers and responses
Internal ==
  \/ Reliable
  \/ RetryTimer

Next ==
  \/ AddFiles
  \/ StartUpload
  \/ PauseAll
  \/ ResumeAll
  \/ RetryFailed
  \/ ClearCompleted
  \/ CancelAll
  \/ CancelAllWithCleanup
  \/ AbortUpload
  \/ RemoveFile
  \/ RemoveFileWithCleanup
  \/ CleanupResponds
  \/ Internal

Spec == Init /\ [][Next]_vars

\* the manager left alone: files are added and started, nothing else is called
NextUndisturbed ==
  \/ AddFiles
  \/ StartUpload
  \/ Internal

InitUndisturbed == InitWith(0, MaxFaults)

SpecUndisturbed == InitUndisturbed /\ [][NextUndisturbed]_vars

\* the manager paused and resumed, on a network that may fail
NextPause ==
  \/ AddFiles
  \/ StartUpload
  \/ PauseAll
  \/ ResumeAll
  \/ Internal

InitPause == InitWith(MaxOps, MaxFaults)

SpecPause == InitPause /\ [][NextPause]_vars

\* uploads aborted and cancelled
NextCancel ==
  \/ AddFiles
  \/ StartUpload
  \/ AbortUpload
  \/ CancelAll
  \/ CancelAllWithCleanup
  \/ CleanupResponds
  \/ Reliable

\* ... several times, on a network that does not fail
InitCancel == InitWith(MaxOps, 0)

SpecCancel == InitCancel /\ [][NextCancel]_vars

\* ... once, on a network that may fail
InitAbort == InitWith(MaxOps - 1, MaxFaults)

SpecAbort == InitAbort /\ [][NextCancel \/ RetryTimer]_vars

(***************************************************************************)
(* Properties.                                                             *)
(***************************************************************************)
Uploading == {i \in DOMAIN files : files[i].status = "uploading"}

\* C1: at most one managed file has status `uploading`, in every reachable state.
QueueExclusivity == Cardinality(Uploading) <= 1

\* C2: the chunk requests in flight at any instant all belong to one file: no chunk
\* request of a file is started while a chunk request of another file is in flight.
NoChunkPhaseOverlap ==
  \A r1, r2 \in {q \in net : q.kind = "chunk"} : r1.id = r2.id

Terminal == {"completed", "error"}

\* C3: with no pause, cancel, removal or retry, whenever a file enters `uploading`,
\* every file added before it has reached `completed` or `error`.
ActivationInInsertionOrder ==
  [][\A i \in DOMAIN files' :
       (files'[i].status = "uploading" /\ (i \notin DOMAIN files \/ files[i].status # "uploading"))
         => \A j \in 1..(i - 1) : files'[j].status \in Terminal]_vars

\* C3 (witness): the second file is uploading after the first one has completed
SecondFileAfterFirst ==
  /\ Len(files) = 2
  /\ files[1].status = "completed"
  /\ files[2].status = "uploading"
  /\ uf.pc = "chunks"

\* the file record with this id in the sequence fs
FileIn(fs, fileId) == fs[CHOOSE i \in DOMAIN fs : fs[i].id = fileId]

\* C4: when the chunk phase of an undisturbed upload ends and every chunk of the file
\* has failed fewer than maxRetries times (k failures, then a send that succeeds), the
\* phase has succeeded: every chunk is `completed`, the progress is 100, the upload
\* goes on to its completion request, and chunk c was sent exactly k + 1 times.
ChunkRetrySucceeds ==
  [][(/\ uf.pc = "chunks"
      /\ uf'.pc # "chunks"
      /\ \A c \in DOMAIN FileIn(files', uf.file).chunks :
           FileIn(files', uf.file).chunks[c].retries < MaxRetries)
       => /\ uf'.pc = "complete"
          /\ FileIn(files', uf.file).progress = 100
          /\ \A c \in DOMAIN FileIn(files', uf.file).chunks :
               /\ FileIn(files', uf.file).chunks[c].status = "completed"
               /\ uf'.sent[c] = FileIn(files', uf.file).chunks[c].retries + 1]_vars

\* C5: a file that was paused while uploading and then resumed (resumeAll has put it
\* back to `pending` while its upload is still running), with no request failed, does
\* not pass to `error` (the file is not empty: the server accepts its initialisation).
PauseResumeContinues ==
  [][(/\ faults' = MaxFaults
      /\ uf.pc # "none"
      /\ uf.size > 0
      /\ ~paused
      /\ FileIn(files, uf.file).status = "pending")
       => FileIn(files', uf.file).status # "error"]_vars

\* cancelAllWithCleanup is waiting for its cleanup requests
Cancelling(ws) == \E w \in ws : w.kind = "cancel"

\* C6: when a call of cancelAllWithCleanup finishes (its last cleanup request has
\* settled), every file that was in the middle of its upload, with some but not all
\* chunks completed, has status `pending`.
CancelWithCleanupResetsToPending ==
  [][(Cancelling(waiters) /\ ~Cancelling(waiters'))
       => \A i \in DOMAIN files :
            (/\ files[i].status \in {"uploading", "paused", "queued"}
             /\ files[i].uploadedChunks > 0
             /\ files[i].uploadedChunks < files[i].totalChunks)
              => FileIn(files', files[i].id).status = "pending"]_vars

\* C7: once the running upload has been aborted (by abortUpload, cancelAll or
\* cancelAllWithCleanup), no step of that upload sets the file's status to `error`
\* or raises the error event of the file.
AbortNeverYieldsError ==
  [][(uf.pc # "none" /\ uf.aborted)
       => /\ FileIn(files', uf.file).status # "error"
          /\ [type |-> "error", id |-> uf.file] \notin Range(events')]_vars

\* the manager left alone, every timer firing and every request answered in the end
SpecUndisturbedFair ==
  /\ SpecUndisturbed
  /\ WF_vars(ProcessQueueTimer)
  /\ WF_vars(ChunkLoopTimer)
  /\ WF_vars(RetryTimer)
  /\ WF_vars(InitResponds)
  /\ WF_vars(ChunkResponds)
  /\ WF_vars(CompleteResponds)

FileHasStatus(fileId, statuses) ==
  \E i \in DOMAIN files : files[i].id = fileId /\ files[i].status \in statuses

\* C8: when a file has ended in `error`, every other file of the manager (queued
\* behind it or added later) eventually reaches `completed` or `error`, provided every
\* timer fires, every request is answered and nothing is paused, cancelled or removed.
FailureNeverBlocksQueue ==
  \A a, b \in FileIds :
    (a # b /\ FileHasStatus(a, {"error"}) /\ FileHasStatus(b, {"pending", "queued", "uploading"}))
      ~> FileHasStatus(b, Terminal)

\* C8 (witness): the first file has failed and the file queued behind it has completed
CompletedBehindFailure ==
  /\ Len(files) = 2
  /\ files[1].status = "error"
  /\ files[1].size > 0
  /\ files[2].status = "completed"

\* a completion request is answered in this step (it leaves the network, and not by a
\* call that aborts it) although the chunk store does not hold totalChunks chunks of
\* its upload
MismatchAnswered(r) ==
  /\ r.kind = "complete"
  /\ r \notin net'
  /\ ops' = ops
  /\ Cardinality(BlobsOf(blobs, r.id)) # r.tc

\* C9 (as stated): whenever the completion endpoint is invoked with a chunk count that
\* differs from totalChunks, no media item is created, no chunk is deleted and the
\* file's status becomes `error`.
CountMismatchSetsError ==
  [][\A r \in net : MismatchAnswered(r)
       => /\ media' = media
          /\ blobs' = blobs
          /\ \E i \in DOMAIN files' : files'[i].id = r.id /\ files'[i].status = "error"]_vars

\* C9 (amended): ... and the file's status becomes `error` if the uploadFile call that
\* sent the request still awaits the response and the file is still managed; when
\* that upload was aborted in the meantime the response is dropped and no file changes.
CountMismatchRejected ==
  [][\A r \in net : MismatchAnswered(r)
       => /\ media' = media
          /\ blobs' = blobs
          /\ (r.live /\ r.id \in FileIdsOf(files))
               => \E i \in DOMAIN files' : files'[i].id = r.id /\ files'[i].status = "error"
          /\ ~r.live => files' = files]_vars

\* C9 (witness): a non-empty file is in `error` with its chunks still stored and no
\* media item, on a network that never fails: its completion was refused for the count
MismatchRefused ==
  \E i \in DOMAIN files :
    /\ files[i].status = "error"
    /\ files[i].size > 0
    /\ files[i].queuePosition = MsgPos
    /\ BlobsOf(blobs, files[i].id) # {}
    /\ \A m \in media : m.id # files[i].id

(***************************************************************************)
(* Reassembly: one file, its chunks stored in any order and any number of  *)
(* times, and the completion endpoint.                                     *)
(***************************************************************************)
AddLongFile ==
  /\ files = <<>>
  /\ \E size \in LongSizes : Commit(addFiles(Cur, <<size>>))

\* uploadChunk's request for chunk c of the file reaches the chunk endpoint
ChunkStored ==
  /\ files # <<>>
  /\ \E c \in DOMAIN files[1].chunks :
       blobs' = chunkEndpoint(blobs, Req("chunk", files[1].id, c, files[1].totalChunks,
                                         files[1].size, chunkBlob(files[1].id, files[1].size, c)))
  /\ UNCHANGED <<files, uploadQueue, activeFileId, paused, processingQueue, abortControllers,
                 pqTimer, uf, retryTimers, net, media, waiters, events, created, ops, faults,
                 now, uploadedAt, response, split>>

\* uploadFile's completion request reaches the completion endpoint
CompleteCalled ==
  /\ files # <<>>
  /\ \E rev \in BOOLEAN :
       \E res \in {completeEndpoint(blobs, media,
                     Req("complete", files[1].id, NoPos, files[1].totalChunks, files[1].size, <<>>),
                     rev, TRUE, {})} :
         /\ blobs' = res.blobs
         /\ media' = res.media
  /\ UNCHANGED <<files, uploadQueue, activeFileId, paused, processingQueue, abortControllers,
                 pqTimer, uf, retryTimers, net, waiters, events, created, ops, faults,
                 now, uploadedAt, response, split>>

NextReassembly ==
  \/ AddLongFile
  \/ ChunkStored
  \/ CompleteCalled

InitReassembly == InitWith(0, 0)

SpecReassembly == InitReassembly /\ [][NextReassembly]_vars

\* C10: whatever the order in which the chunks were stored (and re-stored), what a
\* successful completion hands to the storage backend is the original file, byte for byte.
ReassemblyInOrder ==
  \A m \in media : \A i \in DOMAIN files :
    files[i].id = m.id => m.bytes = FileBytes(files[i].id, files[i].size)

\* C10 (witness): a file of more than ten chunks has been reassembled
LongFileReassembled ==
  \E m \in media : \E i \in DOMAIN files :
    /\ files[i].id = m.id
    /\ files[i].totalChunks > 10
    /\ Len(m.bytes) = files[i].size

\* C12: when the init request of the running upload fails, the file's status becomes
\* `error`, the failure message is kept in the file's error field, and no chunk request
\* and no completion request of the file is in flight.
InitFailureStopsFile ==
  [][(uf.pc = "init" /\ uf'.pc = "none")
       => /\ FileIn(files', uf.file).status = "error"
          /\ FileIn(files', uf.file).error
          /\ \A r \in net' : r.id = uf.file => r.kind \notin {"chunk", "complete"}]_vars

\* how many times the step raises the all-files-complete callback
AllCompleteCount ==
  Cardinality({k \in DOMAIN events' : events'[k] = [type |-> "allComplete", id |-> None]})

\* every managed file is `completed` or `error` after the step
AllFilesEnded == \A i \in DOMAIN files' : files'[i].status \in Terminal

\* some file reaches `completed` or `error` in the step
SomeFileEnds ==
  \E i \in DOMAIN files' :
    /\ files'[i].status \in Terminal
    /\ \E j \in DOMAIN files : files[j].id = files'[i].id /\ files[j].status \notin Terminal

\* C13: the all-files-complete event is raised only by a step that leaves every managed
\* file `completed` or `error`, and a step that takes a file to `completed` or `error` and
\* leaves every managed file so raises the event exactly once.
AllCompleteExactlyOnce ==
  [][/\ AllCompleteCount > 0 => AllFilesEnded
     /\ (SomeFileEnds /\ AllFilesEnded) => AllCompleteCount = 1]_vars

\* C13 (witness): two files, both ended, and the event just raised
AllCompleteAfterTwoFiles ==
  /\ Len(files) = 2
  /\ \A i \in DOMAIN files : files[i].status \in Terminal
  /\ [type |-> "allComplete", id |-> None] \in Range(events)

\* the step is a call of addFiles: the file list grows
FilesAdded == Len(files') > Len(files)

\* the files with status `queued` carry the positions 0..k-1 in insertion order
QueuedPositionsInOrder(fs) ==
  LET queued == SelectSeq(fs, LAMBDA f : f.status = "queued")
  IN  \A k \in DOMAIN queued : queued[k].queuePosition = k - 1

\* C14: after addFiles with no active file the first added file is `pending` and every
\* other added file is `queued`; with an active file every added file is `queued`; and the
\* queued files carry the positions 0..k-1 in insertion order.
AddFilesInitialStatuses ==
  [][FilesAdded =>
       /\ \A i \in (Len(files) + 1)..Len(files') :
            files'[i].status = IF activeFileId = None /\ i = Len(files) + 1
                                 THEN "pending" ELSE "queued"
       /\ QueuedPositionsInOrder(files')]_vars

\* failed files retried, on a network that may fail
NextRetry ==
  \/ NextUndisturbed
  \/ RetryFailed

InitRetry == InitWith(MaxOps - 1, MaxFaults)

SpecRetry == InitRetry /\ [][NextRetry]_vars

SpecRetryFair ==
  /\ SpecRetry
  /\ WF_vars(ProcessQueueTimer)
  /\ WF_vars(ChunkLoopTimer)
  /\ WF_vars(RetryTimer)
  /\ WF_vars(InitResponds)
  /\ WF_vars(ChunkResponds)
  /\ WF_vars(CompleteResponds)

\* the reset of retryFailed, applied in the current state, takes every `error` file and
\* every `error` chunk of such a file to `pending` and keeps the `completed` chunks
RetryResetsFailed ==
  \A i \in DOMAIN files :
    files[i].status = "error" =>
      LET f == retryFailedReset(Cur).files[i]
      IN  /\ f.status = "pending"
          /\ \A c \in DOMAIN f.chunks :
               /\ files[i].chunks[c].status = "error" => f.chunks[c].status = "pending"
               /\ files[i].chunks[c].status = "completed" => f.chunks[c].status = "completed"

\* a step of retryFailed leaves no file and no chunk of a formerly failed file in `error`,
\* and leaves the completed chunks completed
RetryLeavesNoError ==
  [][RetryFailed =>
       \A i \in DOMAIN files :
         files[i].status = "error" =>
           /\ files'[i].status \in {"pending", "queued", "uploading"}
           /\ \A c \in DOMAIN files[i].chunks :
                /\ files'[i].chunks[c].status # "error"
                /\ files[i].chunks[c].status = "completed"
                     => files'[i].chunks[c].status = "completed"]_vars

\* a file waiting after the retry is activated
RetriedFileActivated ==
  \A id \in FileIds :
    (ops = 0 /\ ~paused /\ FileHasStatus(id, {"pending", "queued"}))
      ~> FileHasStatus(id, {"uploading"})

\* C15: retryFailed changes every `error` file and every `error` chunk of such a file to
\* `pending` and keeps the `completed` chunks; when it returns no formerly failed file or
\* chunk is in `error`; and every file that waits after the retry is activated, provided
\* the manager is not paused, every timer fires and every request is answered.
RetryFailedRestarts ==
  /\ []RetryResetsFailed
  /\ RetryLeavesNoError
  /\ RetriedFileActivated

\* C15 (witness): after the retry, a file that had failed with one chunk stored is being
\* uploaded again, its stored chunk still `completed` and its failed chunk `pending`
FailedFileUploadingAgain ==
  /\ ops = 0
  /\ uf.pc = "init"
  /\ \E i \in DOMAIN files :
       /\ files[i].id = uf.file
       /\ files[i].status = "uploading"
       /\ \E c, d \in DOMAIN files[i].chunks :
            files[i].chunks[c].status = "completed" /\ files[i].chunks[d].status = "pending"

\* files removed, with and without cleanup of their chunks, on a reliable network
NextRemove ==
  \/ AddFiles
  \/ StartUpload
  \/ RemoveFile
  \/ RemoveFileWithCleanup
  \/ CleanupResponds
  \/ Reliable

InitRemove == InitWith(MaxOps, 0)

SpecRemove == InitRemove /\ [][NextRemove]_vars

\* the file was created and is no longer in the file list: its removal has finished
Removed(fileId) == fileId \in 1..created /\ fileId \notin FileIdsOf(files)

\* the requests the step starts: those in flight after it that were not in flight before
\* it (a request whose caller has gone stays in flight, marked as not live)
StartedRequests ==
  {r \in net' : \A q \in net : [q EXCEPT !.live = TRUE] # [r EXCEPT !.live = TRUE]}

\* C16: once a file has been removed it is absent from the queue and the active slot,
\* and from then on no init, chunk or completion request is started for it and no event
\* is raised for it.
RemovalIsFinal ==
  [][\A fileId \in FileIds :
       Removed(fileId) =>
         /\ fileId \notin Range(uploadQueue)
         /\ activeFileId # fileId
         /\ \A r \in StartedRequests :
              r.id = fileId => r.kind \notin {"init", "chunk", "complete"}
         /\ \A k \in DOMAIN events' : events'[k].id # fileId]_vars

(***************************************************************************)
(* The cleanup endpoints called on their own: chunks stored at the hour    *)
(* of the server clock, the orphan sweep and the targeted cleanup.         *)
(***************************************************************************)
\* the Map from upload id (pathname.split("/")[1]) to the objects listed under it
uploadGroups(bs) == [u \in {b.uploadId : b \in bs} |-> BlobsOf(bs, u)]

\* a reduce that keeps the object uploaded last
oldestBlobNewest(uploadBlobs, at) ==
  CHOOSE o \in uploadBlobs : \A c \in uploadBlobs : at[o] >= at[c]

\* uploadBlobs.reduce(...): an object of the group with the earliest uploadedAt
oldestBlob(uploadBlobs, at) ==
  CHOOSE o \in uploadBlobs : \A c \in uploadBlobs : at[o] <= at[c]

\* now - new Date(oldestBlob.uploadedAt).getTime()
blobAge(uploadBlobs, at, t) == t - at[oldestBlob(uploadBlobs, at)]

\* the orphan sweep; kept: the objects whose deletion fails; listOk: list() succeeds
cleanupOrphaned(bs, at, t, kept, listOk) ==
  IF ~listOk
    THEN [blobs |-> bs, response |-> [status |-> 500]]
  ELSE IF bs = {}
    THEN [blobs |-> bs,
          response |-> [status |-> 200, success |-> TRUE,
                        message |-> "No upload chunks found", deletedCount |-> 0]]
  ELSE LET groups == uploadGroups(bs)
           orphaned == {u \in DOMAIN groups : blobAge(groups[u], at, t) > ORPHAN_THRESHOLD}
           attempted == UNION {groups[u] : u \in orphaned}
           totalDeleted == Cardinality(attempted \ kept)
           totalFailed == Cardinality(attempted \cap kept)
       IN  [blobs |-> bs \ (attempted \ kept),
            response |-> [status |-> 200, success |-> TRUE, deletedCount |-> totalDeleted,
                          failedCount |-> totalFailed,
                          uploadGroupsProcessed |-> Cardinality(DOMAIN groups)]]

\* the manager's variables, which the endpoints called on their own leave alone
managerVars == <<files, uploadQueue, activeFileId, paused, processingQueue, abortControllers,
                 pqTimer, uf, retryTimers, net, media, waiters, events, created, ops, faults,
                 split>>

\* a chunk of a full-size file reaches the chunk endpoint, which answers `received`
ChunkUploaded ==
  \E u \in FileIds : \E c \in 0..(MaxChunks - 1) :
    /\ \A b \in blobs : ~(b.uploadId = u /\ b.name = ToDigits(c))
    /\ blobs' = chunkEndpoint(blobs, Req("chunk", u, c, MaxChunks, MaxChunks * ChunkSize,
                                         chunkBlob(u, MaxChunks * ChunkSize, c)))
    /\ uploadedAt' = [b \in blobs' |-> IF b \in blobs THEN uploadedAt[b] ELSE now]
    /\ response' = [status |-> 200, chunkIndex |-> c]
    /\ UNCHANGED <<now, managerVars>>

\* half a threshold, or an hour more, passes
Tick ==
  \E d \in {ORPHAN_THRESHOLD \div 2, ORPHAN_THRESHOLD \div 2 + 1} :
    /\ now + d <= MaxNow
    /\ now' = now + d
    /\ UNCHANGED <<blobs, uploadedAt, response, managerVars>>

\* POST cleanup-orphaned
CleanupOrphanedCalled ==
  \E kept \in SUBSET blobs : \E listOk \in BOOLEAN :
    \E res \in {cleanupOrphaned(blobs, uploadedAt, now, kept, listOk)} :
      /\ blobs' = res.blobs
      /\ uploadedAt' = [b \in res.blobs |-> uploadedAt[b]]
      /\ response' = res.response
      /\ UNCHANGED <<now, managerVars>>

NextSweep ==
  \/ ChunkUploaded
  \/ Tick
  \/ CleanupOrphanedCalled

InitSweep == InitWith(0, 0)

SpecSweep == InitSweep /\ [][NextSweep]_vars

\* the upload's group is over age: one of its objects is older than 24 hours
OverAge(uploadId) ==
  \E b \in BlobsOf(blobs, uploadId) : now - uploadedAt[b] > ORPHAN_THRESHOLD

\* the objects of the over-age groups
OverAgeBlobs == {b \in blobs : OverAge(b.uploadId)}

\* the orphan sweep answers with success in this step
SweepAnswers == CleanupOrphanedCalled /\ response'.status = 200

\* C17 (as claimed): the sweep deletes an object exactly when its group is over age,
\* leaves the other groups unchanged, and deletedCount + failedCount is the number of
\* objects in the over-age groups.
SweepDeletesByAge ==
  [][SweepAnswers =>
       /\ \A b \in blobs : b \notin blobs' <=> OverAge(b.uploadId)
       /\ "failedCount" \in DOMAIN response'
       /\ response'.deletedCount + response'.failedCount = Cardinality(OverAgeBlobs)]_vars

\* C17: a sweep that answers with success deletes objects of over-age groups only and
\* leaves every other group unchanged; deletedCount is the number of objects it deleted;
\* when the store is not empty, failedCount is the number of objects of over-age groups
\* it did not delete, so that the two counts add up to the number of objects in the
\* over-age groups; when the store is empty it reports deletedCount 0 and no failedCount.
SweepSelectsByAge ==
  [][SweepAnswers =>
       /\ \A b \in blobs : b \notin blobs' => OverAge(b.uploadId)
       /\ blobs' \subseteq blobs
       /\ \A b \in blobs' : uploadedAt'[b] = uploadedAt[b]
       /\ response'.deletedCount = Cardinality(blobs \ blobs')
       /\ IF blobs = {}
            THEN "failedCount" \notin DOMAIN response'
            ELSE /\ response'.failedCount = Cardinality(OverAgeBlobs \cap blobs')
                 /\ response'.deletedCount + response'.failedCount
                      = Cardinality(OverAgeBlobs)]_vars

\* C17 (witness): the sweep has deleted the whole group of one upload, two objects, and
\* kept the two objects of the other upload, which are half a threshold old or younger
OldGroupSwept ==
  /\ "uploadGroupsProcessed" \in DOMAIN response
  /\ response.uploadGroupsProcessed = 2
  /\ response.deletedCount = 2
  /\ response.failedCount = 0
  /\ Cardinality(blobs) = 2
  /\ \A b \in blobs : now - uploadedAt[b] <= ORPHAN_THRESHOLD \div 2

\* the response of the targeted cleanup endpoint; listOk: list() succeeds
cleanupResponse(bs, uploadId, kept, listOk) ==
  IF uploadId = None THEN [status |-> 400]
  ELSE IF ~listOk THEN [status |-> 500]
  ELSE LET listed == BlobsOf(bs, uploadId)
       IN  IF listed = {}
             THEN [status |-> 200, success |-> TRUE,
                   message |-> "No chunks to clean up", deletedCount |-> 0]
             ELSE [status |-> 200, success |-> TRUE,
                   deletedCount |-> Cardinality(listed \ cleanupEndpoint(bs, uploadId, kept)),
                   failedCount |-> Cardinality(listed \cap kept),
                   totalChunks |-> Cardinality(listed)]

\* POST cleanup with the given upload id (None: the body has no uploadId)
CleanupCalledFor(uploadId) ==
  \E kept \in SUBSET BlobsOf(blobs, uploadId) : \E listOk \in BOOLEAN :
    /\ response' = cleanupResponse(blobs, uploadId, kept, listOk)
    /\ blobs' = IF response'.status = 200 THEN cleanupEndpoint(blobs, uploadId, kept) ELSE blobs
    /\ uploadedAt' = [b \in blobs' |-> uploadedAt[b]]
    /\ UNCHANGED <<now, managerVars>>

CleanupCalled == \E uploadId \in FileIds \cup {None} : CleanupCalledFor(uploadId)

NextCleanup ==
  \/ ChunkUploaded
  \/ Tick
  \/ CleanupCalled

InitCleanup == InitWith(0, 0)

SpecCleanup == InitCleanup /\ [][NextCleanup]_vars

\* C18: a targeted cleanup that answers with success removes objects of its upload id only
\* and leaves every object of another upload id unchanged; it reports success, with
\* deletedCount the number of objects removed and, when it listed an object,
\* deletedCount + failedCount the number of objects listed, whether or not deletions
\* failed; when no object is stored under the id it reports success with deletedCount 0;
\* and an answer other than success leaves the store unchanged.
CleanupScopedAndTolerant ==
  [][\A uploadId \in FileIds :
       CleanupCalledFor(uploadId) =>
         IF response'.status = 200
           THEN /\ blobs' \subseteq blobs
                /\ \A b \in blobs : b.uploadId # uploadId =>
                     b \in blobs' /\ uploadedAt'[b] = uploadedAt[b]
                /\ response'.success
                /\ response'.deletedCount = Cardinality(blobs \ blobs')
                /\ IF BlobsOf(blobs, uploadId) = {}
                     THEN response'.deletedCount = 0
                     ELSE /\ response'.failedCount = Cardinality(BlobsOf(blobs', uploadId))
                          /\ response'.deletedCount + response'.failedCount
                               = Cardinality(BlobsOf(blobs, uploadId))
           ELSE blobs' = blobs]_vars

\* C18 (witness): a cleanup has deleted one of the two objects of its upload, failed to
\* delete the other and answered with success, the two objects of the other upload kept
CleanupHalfFailed ==
  /\ "totalChunks" \in DOMAIN response
  /\ response.success
  /\ response.deletedCount = 1
  /\ response.failedCount = 1
  /\ Cardinality(blobs) = 3

\* the storage backend accepts the file of completion request r in this step
BackendAccepts(r) == \E m \in media' \ media : m.id = r.id

\* C19: when a completion request is answered, chunk objects are deleted only if the
\* storage backend accepted the file in that step, and only objects of that upload; when
\* the backend accepted the file the client marks it `completed`, whether or not the
\* deletions succeeded; when the backend did not accept it no chunk object is deleted.
ChunkDeletionIsAdvisory ==
  [][\A r \in net :
       (r.kind = "complete" /\ r \notin net') =>
         /\ blobs' # blobs => BackendAccepts(r)
         /\ blobs' \subseteq blobs
         /\ blobs \ blobs' \subseteq BlobsOf(blobs, r.id)
         /\ BackendAccepts(r) =>
              (r.live /\ r.id \in FileIdsOf(files')) /\ FileIn(files', r.id).status = "completed"
         /\ ~BackendAccepts(r) => blobs' = blobs]_vars

\* C19 (witness): a file is `completed` and handed to the backend while a deletion has
\* failed and chunk objects of its upload are still stored
CompletedWithChunksLeft ==
  \E i \in DOMAIN files :
    /\ files[i].status = "completed"
    /\ faults < MaxFaults
    /\ \E m \in media : m.id = files[i].id
    /\ BlobsOf(blobs, files[i].id) # {}

(***************************************************************************)
(* Chunk splitting: every file size up to MaxFileSize under every chunk     *)
(* size up to MaxChunkSize.                                                *)
(***************************************************************************)
\* the manager derives the chunks of a file of some size under some chunk size
SplitFile ==
  /\ \E fileSize \in 0..MaxFileSize : \E chunkSize \in 1..MaxChunkSize :
       split' = splitFile(fileSize, chunkSize)
  /\ UNCHANGED <<files, uploadQueue, activeFileId, paused, processingQueue, abortControllers,
                 pqTimer, uf, retryTimers, net, blobs, media, waiters, events, created, ops,
                 faults, now, uploadedAt, response>>

NextSplit == SplitFile

InitSplit == InitWith(0, 0)

SpecSplit == InitSplit /\ [][NextSplit]_vars

\* the sum of the lengths of the chunks with index below n
RECURSIVE LengthsBelow(_, _)
LengthsBelow(chunks, n) ==
  IF n = 0 THEN 0
  ELSE LengthsBelow(chunks, n - 1) + (chunks[n - 1].end - chunks[n - 1].start)

\* C20: the chunks derived for a file are ceil(fileSize / chunkSize) in number, carry the
\* indices 0..n-1, start where the chunk before ends, have lengths that sum to fileSize,
\* and all except possibly the last have length chunkSize.
ChunkSplittingCoversFile ==
  LET n == split.totalChunks
      chunks == split.chunks
  IN  /\ n * split.chunkSize >= split.fileSize
      /\ n > 0 => (n - 1) * split.chunkSize < split.fileSize
      /\ DOMAIN chunks = 0..(n - 1)
      /\ \A i \in DOMAIN chunks :
           /\ chunks[i].index = i
           /\ chunks[i].start = IF i = 0 THEN 0 ELSE chunks[i - 1].end
           /\ i < n - 1 => chunks[i].end - chunks[i].start = split.chunkSize
      /\ LengthsBelow(chunks, n) = split.fileSize

\* C20 (witness): a file of three chunks whose last chunk is one byte long
ThreeChunksShortLast ==
  /\ split.chunkSize > 1
  /\ split.totalChunks = 3
  /\ split.fileSize = 2 * split.chunkSize + 1
  /\ split.chunks[2].end - split.chunks[2].start = 1

\* the chunk phase of the running upload fails in this step: uploadChunks throws and
\* uploadFile's catch block sets the file to `error`
ChunkPhaseFails ==
  /\ uf.pc = "chunks"
  /\ uf'.pc = "none"
  /\ uf.file \in FileIdsOf(files')
  /\ FileIn(files', uf.file).status = "error"

\* C21: the chunk phase sets the file to `error` only if a chunk has failed with its
\* retry count already at maxRetries, and never while a failed chunk still awaits its
\* backoff re-enqueue.
OnlyExhaustionFailsFile ==
  [][ChunkPhaseFails =>
       /\ \E c \in DOMAIN uf.results :
            /\ uf.results[c] = "err"
            /\ FileIn(files, uf.file).chunks[c].retries = MaxRetries
            /\ uf.sent[c] > MaxRetries
       /\ retryTimers = {}]_vars

\* the chunk requests of file fileId that are outstanding
OutstandingChunks(fileId) == {r \in net : r.kind = "chunk" /\ r.id = fileId}

\* C22: at every instant the number of outstanding chunk requests of a file is at most
\* maxConcurrentChunks.
ChunkConcurrencyBound ==
  \A fileId \in FileIds : Cardinality(OutstandingChunks(fileId)) <= MaxConcurrentChunks

\* C23: while a chunk request issued by an upload is outstanding, that upload has not
\* returned: every outstanding chunk request belongs to the running uploadFile call and
\* is awaited by its uploadChunks (none is left behind by a call that has returned).
CancellationDrainsRequests ==
  \A r \in net :
    r.kind = "chunk" => /\ r.live
                        /\ uf.pc = "chunks"
                        /\ uf.file = r.id
                        /\ r.idx \in uf.activeChunks

\* C24: the active file id is never an element of uploadQueue, and the active slot is
\* empty whenever the manager is paused or idle (no uploadFile call running).
QueueStateInvariant ==
  /\ activeFileId # None => activeFileId \notin Range(uploadQueue)
  /\ paused => activeFileId = None
  /\ uf.pc = "none" => activeFileId = None

\* C25: for every managed file, uploadedChunks is the number of its chunks with status
\* `completed` and progress is round(uploadedChunks / totalChunks * 100).
ProgressInvariant ==
  \A i \in DOMAIN files :
    /\ files[i].uploadedChunks = CompletedCount(files[i].chunks)
    /\ files[i].totalChunks > 0 =>
         files[i].progress = RoundPct(files[i].uploadedChunks, files[i].totalChunks)

\* the status of file fileId changes in this step from one of `from` to one of `to`
StatusChanges(fileId, to) ==
  /\ fileId \in FileIdsOf(files) /\ fileId \in FileIdsOf(files')
  /\ FileIn(files', fileId).status \in to
  /\ FileIn(files, fileId).status # FileIn(files', fileId).status

\* C26: a file's status changes to `paused` only from `uploading`, and changes to
\* `completed` or `error` only from `uploading`.
PerFileStateMachine ==
  [][\A fileId \in FileIds :
       StatusChanges(fileId, {"paused", "completed", "error"})
         => FileIn(files, fileId).status = "uploading"]_vars

\* C27: a zero-byte file in the manager has exactly one chunk.
EmptyFileHasOneChunk ==
  \A i \in DOMAIN files :
    files[i].size = 0 =>
      /\ files[i].totalChunks = 1
      /\ DOMAIN files[i].chunks = {0}

\* a network that fails often enough to exhaust the retries of a chunk
InitExhaust == InitWith(0, MaxRetries + 1)

SpecExhaust == InitExhaust /\ [][NextUndisturbed]_vars

\* C28: each chunk's retry count is within 0..maxRetries, and within one run of
\* uploadChunks a chunk index is sent at most maxRetries + 1 times.
RetryCounterBound ==
  /\ \A i \in DOMAIN files : \A c \in DOMAIN files[i].chunks :
       files[i].chunks[c].retries \in 0..MaxRetries
  /\ \A c \in DOMAIN uf.sent : uf.sent[c] <= MaxRetries + 1

\* C28 (witness): a chunk has failed on its last send, maxRetries + 1 sends in one run,
\* with its retry count at maxRetries
RetriesExhausted ==
  /\ uf.pc = "chunks"
  /\ \E c \in DOMAIN uf.sent :
       /\ uf.sent[c] = MaxRetries + 1
       /\ uf.results[c] = "err"
       /\ FileIn(files, uf.file).chunks[c].retries = MaxRetries
       /\ c \notin retryTimers

\* C29: once a managed file is `completed`, no step changes its status while it is
\* managed, and no step starts an init, chunk or completion request for it.
CompletedIsTerminal ==
  [][\A fileId \in FileIds :
       (fileId \in FileIdsOf(files) /\ FileIn(files, fileId).status = "completed") =>
         /\ fileId \in FileIdsOf(files') => FileIn(files', fileId).status = "completed"
         /\ \A r \in StartedRequests :
              r.id = fileId => r.kind \notin {"init", "chunk", "complete"}]_vars

\* files removed with cleanup of their chunks only, on a reliable network
NextRemoveWithCleanup ==
  \/ AddFiles
  \/ StartUpload
  \/ RemoveFileWithCleanup
  \/ CleanupResponds
  \/ Reliable

InitRemoveWithCleanup == InitWith(MaxOps, 0)

SpecRemoveWithCleanup == InitRemoveWithCleanup /\ [][NextRemoveWithCleanup]_vars

\* removeFileWithCleanup(fileId) has returned and every request has resolved
RemovedAndQuiet(fileId) ==
  /\ Removed(fileId)
  /\ net = {}
  /\ uf.pc = "none"

\* C30: once removeFileWithCleanup(id) has returned and every request has resolved, the
\* chunk store holds no chunk object of upload id (no deletion failing).
NoStrayChunksAfterRemoval ==
  \A fileId \in FileIds : RemovedAndQuiet(fileId) => BlobsOf(blobs, fileId) = {}
=============================================================================
